---- MODULE Spec2Model ----
(***************************************************************************)
(* Model of the client-side translation orchestration of the Aura          *)
(* storefront: LanguageProvider (language, cache, isTranslating, the       *)
(* missingTranslations ref, the 800 ms effect timer) and the translateBatch*)
(* service call it awaits.                                                 *)
(*                                                                         *)
(* Strings are sequences of one-character strings, so that template-string *)
(* concatenation, toLowerCase and includes are computed, not assumed.      *)
(***************************************************************************)
EXTENDS Integers, Sequences, FiniteSets, Bags, TLC

VARIABLES
    language,             \* useState('English')
    cache,                \* useState<Record<string,string>>({}): key -> value
    isTranslating,        \* useState(false)
    missingTranslations,  \* useRef(new Set()): a JS Set, kept in insertion order
    timer,                \* the pending setTimeout of the effect, with its closure
    inflight,             \* translateBatch calls awaiting their response
    requested             \* history: texts passed to translateBatch since the
                          \* language last changed

langVars == <<language, cache, isTranslating, missingTranslations, timer, inflight, requested>>

\* Checkout
VARIABLES
    zipCode,              \* useState('')
    suggestions,          \* useState<LocationSuggestion[]>([])
    showSuggestions,      \* useState(false)
    selectedCountry,      \* useState('')
    shippingCost,         \* useState(0)
    shippingDetails,      \* useState(null)
    isShippingCalculated, \* useState(false)
    isCalculating,        \* useState(false)
    isLookingUp,          \* useState(false)
    debounceRef,          \* useRef(null): the id of the timeout set last
    timeouts,             \* the timeouts of handleZipChange not yet run or cleared
    lookups,              \* lookupZipLocation calls awaiting their response
    estimates,            \* calculateShippingEstimate calls awaiting their response
    suggestionsFor        \* history: the input value the displayed suggestions
                          \* were looked up for

checkoutVars == <<zipCode, suggestions, showSuggestions, selectedCountry, shippingCost,
                  shippingDetails, isShippingCalculated, isCalculating, isLookingUp,
                  debounceRef, timeouts, lookups, estimates, suggestionsFor>>

\* The concierge: one call of sendMessageToGemini at a time.
VARIABLES
    chatPc,               \* where the call is: "idle", "awaitReply", "awaitImage",
                          \* "awaitToolReply", "done"
    turns,                \* number of calls started
    apiKey,               \* process.env.API_KEY as the call read it
    imageBase64,          \* the call's imageBase64 argument
    chatResult,           \* result: the reply to the user message
    generatedImage,       \* what generateImageWithNanoBanana resolved with
    toolResponse,         \* the reply to the function response
    caught,               \* the catch block ran
    sent,                 \* the messages passed to chat.sendMessage, in order
    returned              \* what the call's promise resolved with

chatVars == <<chatPc, turns, apiKey, imageBase64, chatResult, generatedImage, toolResponse,
              caught, sent, returned>>

\* App: the view and the cart.
VARIABLES
    view,                 \* the ViewState
    cartItems,            \* the products in the cart, in order
    isCartOpen,           \* the cart drawer is open
    adds,                 \* history: number of addToCart calls
    removes               \* history: number of removeFromCart calls

cartVars == <<view, cartItems, isCartOpen, adds, removes>>

\* TranslationLoader.
VARIABLES
    mounted,              \* the overlay is in the DOM
    visible,              \* the overlay has its fade-in class
    loaderTimer           \* the timeout the effect left pending

loaderVars == <<mounted, visible, loaderTimer>>

\* ProductDetail.
VARIABLES
    translatedDesc,       \* the stored translated description, or null
    translatedFeatures,   \* the stored translated features, or null
    detailTranslating,    \* isTranslating of ProductDetail
    showTranslation,      \* the translated text is shown
    detailRequests,       \* bag of translateProductDetails calls in flight
    detailSucceeded       \* history: translations stored from requests issued
                          \* since the reset effect last ran

detailVars == <<translatedDesc, translatedFeatures, detailTranslating, showTranslation,
                detailRequests, detailSucceeded>>

appVars == <<cartVars, loaderVars, detailVars>>

vars == <<langVars, checkoutVars, chatVars, appVars>>

(***************************************************************************)
(* Bounds of the model.                                                    *)
(***************************************************************************)
MaxInFlight == 2

(***************************************************************************)
(* Strings.                                                                *)
(***************************************************************************)
English == <<"E","n","g","l","i","s","h">>
French  == <<"F","r","e","n","c","h">>
German  == <<"G","e","r","m","a","n">>

\* The language codes a user can pick in the navbar (three of the six).
Languages == {English, French, German}

TxtEmpty    == << >>
TxtAura     == <<"A","u","r","a">>
TxtQuiet    == <<"Q","u","i","e","t"," ","l","i","v","i","n","g">>
TxtQuietDot == <<"Q","u","i","e","t"," ","l","i","v","i","n","g",".">>
TxtQuietUpper == <<"Q","U","I","E","T"," ","L","I","V","I","N","G">>
TxtShop     == <<"S","h","o","p">>
TxtAbout    == <<"A","b","o","u","t">>

\* The texts UI call sites pass to translate.
Texts == {TxtEmpty, TxtAura, TxtQuiet, TxtQuietDot, TxtQuietUpper, TxtShop, TxtAbout}

ResBoutique == <<"B","o","u","t","i","q","u","e">>
ResApropos  == <<"A"," ","p","r","o","p","o","s">>

\* The strings an element of a parsed response array can be.
ResultStrings == {TxtEmpty, ResBoutique, ResApropos}

\* String.prototype.toLowerCase on the characters the texts use.
ToLowerChar(c) ==
    CASE c = "A" -> "a"
      [] c = "Q" -> "q"
      [] c = "S" -> "s"
      [] c = "L" -> "l"
      [] c = "U" -> "u"
      [] c = "I" -> "i"
      [] c = "E" -> "e"
      [] c = "T" -> "t"
      [] c = "V" -> "v"
      [] c = "N" -> "n"
      [] c = "G" -> "g"
      [] OTHER   -> c

ToLowerCase(s) == [i \in 1..Len(s) |-> ToLowerChar(s[i])]

\* String.prototype.includes
Includes(s, sub) ==
    \E i \in 0..(Len(s) - Len(sub)) :
        \A j \in 1..Len(sub) : s[i + j] = sub[j]

QuietLivingLower == <<"q","u","i","e","t"," ","l","i","v","i","n","g">>

\* `${lang}|${text}`
getCacheKey(text, lang) == lang \o <<"|">> \o text

\* The value a missing property reads as (no string equals it).
Undefined == <<"undefined">>

\* cache[key] on a plain object
Lookup(c, key) == IF key \in DOMAIN c THEN c[key] ELSE Undefined

\* JavaScript truthiness of a string or undefined
Truthy(v) == v # Undefined /\ v # TxtEmpty

\* No timeout pending.
NoTimer == [armed |-> FALSE]

(***************************************************************************)
(* missingTranslations: Set.add and Array.from(set).filter(...)            *)
(***************************************************************************)
InSeq(s, x) == \E i \in 1..Len(s) : s[i] = x

\* Variant: an array push instead of Set.add.
SetAdd_Push(s, x) == Append(s, x)

SetAdd(s, x) == IF InSeq(s, x) THEN s ELSE Append(s, x)

Needed(missing, c, lang) ==
    SelectSeq(missing, LAMBDA text : ~Truthy(Lookup(c, getCacheKey(text, lang))))

(***************************************************************************)
(* LanguageProvider.translate                                              *)
(***************************************************************************)
\* Variant: only the slogan is protected.
IsProtected_SloganOnly(text) ==
    Includes(ToLowerCase(text), QuietLivingLower)

\* Variant: the slogan is compared with ===, as the brand name is.
IsProtected_ExactMatch(text) ==
    text = TxtQuiet \/ text = TxtAura

IsProtected(text) ==
    Includes(ToLowerCase(text), QuietLivingLower) \/ text = TxtAura

\* Variant: translate without the cache hit (line 304 dropped).
TranslateResult_NoCacheHit(text) ==
    IF language = English \/ text = TxtEmpty
    THEN [ret |-> text, missing |-> missingTranslations]
    ELSE IF IsProtected(text)
    THEN [ret |-> text, missing |-> missingTranslations]
    ELSE [ret |-> text, missing |-> SetAdd(missingTranslations, text)]

\* The result of translate(text) in the current render: the value returned
\* and the content of the ref afterwards.
TranslateResult(text) ==
    IF language = English \/ text = TxtEmpty
    THEN [ret |-> text, missing |-> missingTranslations]
    ELSE IF IsProtected(text)
    THEN [ret |-> text, missing |-> missingTranslations]
    ELSE IF Truthy(Lookup(cache, getCacheKey(text, language)))
    THEN [ret |-> Lookup(cache, getCacheKey(text, language)),
          missing |-> missingTranslations]
    ELSE [ret |-> text, missing |-> SetAdd(missingTranslations, text)]

\* A component renders and calls translate(text); the value returned is
\* TranslateResult(text).ret, the ref is the only state it writes.
Translate(text) ==
    /\ missingTranslations' = TranslateResult(text).missing
    /\ UNCHANGED <<language, cache, isTranslating, timer, inflight, requested>>
    /\ UNCHANGED <<checkoutVars, chatVars, appVars>>

(***************************************************************************)
(* TranslationLoader: the effect with dependency [isTranslating].  After a *)
(* render in which isTranslating changed, the previous timeout is cleared; *)
(* the overlay is mounted and a 50 ms timeout will make it visible, or it  *)
(* is made invisible and a 500 ms timeout will unmount it.                 *)
(***************************************************************************)
\* Variant: the overlay keeps its fade-in class when isTranslating ends.
LoaderEffect_StaysVisible(translating) ==
    IF translating = isTranslating
    THEN UNCHANGED loaderVars
    ELSE IF translating
         THEN /\ mounted' = TRUE
              /\ loaderTimer' = "show"
              /\ UNCHANGED visible
         ELSE /\ loaderTimer' = "unmount"
              /\ UNCHANGED <<mounted, visible>>

LoaderEffect(translating) ==
    IF translating = isTranslating
    THEN UNCHANGED loaderVars
    ELSE IF translating
         THEN /\ mounted' = TRUE
              /\ loaderTimer' = "show"
              /\ UNCHANGED visible
         ELSE /\ visible' = FALSE
              /\ loaderTimer' = "unmount"
              /\ UNCHANGED mounted

\* setTimeout(() => setVisible(true), 50) runs.
ShowTimeout ==
    /\ loaderTimer = "show"
    /\ visible' = TRUE
    /\ loaderTimer' = "none"
    /\ UNCHANGED mounted
    /\ UNCHANGED <<langVars, checkoutVars, chatVars, cartVars, detailVars>>

\* setTimeout(() => setMounted(false), 500) runs.
UnmountTimeout ==
    /\ loaderTimer = "unmount"
    /\ mounted' = FALSE
    /\ loaderTimer' = "none"
    /\ UNCHANGED visible
    /\ UNCHANGED <<langVars, checkoutVars, chatVars, cartVars, detailVars>>

(***************************************************************************)
(* The effect with dependencies [language, isTranslating, cache]: after a  *)
(* render in which a dependency changed, the previous timer is cleared and *)
(* a new one is set only while isTranslating.                              *)
(***************************************************************************)
EffectTimer(lang, translating, c, depsChanged) ==
    IF ~depsChanged THEN timer
    ELSE IF ~translating THEN NoTimer
    ELSE [armed |-> TRUE, lang |-> lang, cache |-> c]

(***************************************************************************)
(* handleSetLanguage                                                       *)
(***************************************************************************)
\* Variant: the English branch does not clear isTranslating.
SetLanguage_KeepsFlag(lang) ==
    IF lang = language
    THEN UNCHANGED vars
    ELSE /\ language' = lang
         /\ isTranslating' = IF lang # English THEN TRUE ELSE isTranslating
         /\ missingTranslations' =
                IF lang # English THEN << >> ELSE missingTranslations
         /\ timer' = EffectTimer(lang, isTranslating', cache, TRUE)
         /\ requested' = {}
         /\ UNCHANGED <<cache, inflight>>
         /\ LoaderEffect(isTranslating')
         /\ UNCHANGED <<checkoutVars, chatVars, cartVars, detailVars>>

\* Variant: the ref is not cleared.
SetLanguage_NoClear(lang) ==
    IF lang = language
    THEN UNCHANGED vars
    ELSE /\ language' = lang
         /\ isTranslating' = (lang # English)
         /\ timer' = EffectTimer(lang, lang # English, cache, TRUE)
         /\ requested' = {}
         /\ UNCHANGED <<cache, inflight, missingTranslations>>
         /\ LoaderEffect(isTranslating')
         /\ UNCHANGED <<checkoutVars, chatVars, cartVars, detailVars>>

SetLanguage(lang) ==
    IF lang = language
    THEN UNCHANGED vars
    ELSE /\ language' = lang
         /\ isTranslating' = (lang # English)
         /\ missingTranslations' =
                IF lang # English THEN << >> ELSE missingTranslations
         /\ timer' = EffectTimer(lang, lang # English, cache, TRUE)
         /\ requested' = {}
         /\ UNCHANGED <<cache, inflight>>
         /\ LoaderEffect(isTranslating')
         /\ UNCHANGED <<checkoutVars, chatVars, cartVars, detailVars>>

(***************************************************************************)
(* processTranslations up to the await: the timer fires.                   *)
(***************************************************************************)
TimerFire ==
    /\ timer # NoTimer
    /\ LET needed == Needed(missingTranslations, timer.cache, timer.lang)
       IN IF Len(needed) = 0
          THEN /\ isTranslating' = FALSE
               /\ timer' = EffectTimer(language, FALSE, cache, TRUE)
               /\ UNCHANGED <<inflight, requested>>
          ELSE /\ BagCardinality(inflight) < MaxInFlight
               /\ inflight' = inflight (+) SetToBag({[texts |-> needed, lang |-> timer.lang]})
               /\ requested' = requested \cup {needed[i] : i \in 1..Len(needed)}
               /\ timer' = NoTimer
               /\ UNCHANGED isTranslating
    /\ UNCHANGED <<language, cache, missingTranslations>>
    /\ LoaderEffect(isTranslating')
    /\ UNCHANGED <<checkoutVars, chatVars, cartVars, detailVars>>

(***************************************************************************)
(* translateBatch: what the promise resolves with.                         *)
(***************************************************************************)
Outcomes == {"noApiKey", "throws", "emptyText", "parseError", "parsed"}

FailureOutcomes == Outcomes \ {"parsed"}

\* The arrays JSON.parse can return for a request of n texts.
Payloads(n) == UNION {[1..k -> ResultStrings] : k \in 0..n}

translateBatch(texts, outcome, payload) ==
    IF outcome = "parsed" THEN payload ELSE texts

\* Variant: the updater stores results[0] for every text.
MergeResults_FirstResult(prev, needed, results, lang) ==
    LET stored == {i \in 1..Len(needed) : 1 <= Len(results) /\ results[1] # TxtEmpty}
        newKeys == {getCacheKey(needed[i], lang) : i \in stored}
    IN [key \in DOMAIN prev \cup newKeys |->
            IF key \in newKeys THEN results[1] ELSE prev[key]]

\* The updater passed to setCache.
MergeResults(prev, needed, results, lang) ==
    LET stored == {i \in 1..Len(needed) : i <= Len(results) /\ results[i] # TxtEmpty}
        newKeys == {getCacheKey(needed[i], lang) : i \in stored}
    IN [key \in DOMAIN prev \cup newKeys |->
            IF key \in newKeys
            THEN LET i == CHOOSE j \in stored : getCacheKey(needed[j], lang) = key
                 IN results[i]
            ELSE prev[key]]

(***************************************************************************)
(* processTranslations after the await: the response is processed.         *)
(***************************************************************************)
\* Variant: the texts of the request are deleted from the ref.
Resolve_Drains(req, outcome, payload) ==
    /\ req \in BagToSet(inflight)
    /\ inflight' = inflight (-) SetToBag({req})
    /\ cache' = MergeResults(cache, req.texts,
                             translateBatch(req.texts, outcome, payload), req.lang)
    /\ isTranslating' = FALSE
    /\ timer' = EffectTimer(language, FALSE, cache', TRUE)
    /\ missingTranslations' =
           SelectSeq(missingTranslations, LAMBDA text : ~InSeq(req.texts, text))
    /\ UNCHANGED <<language, requested>>
    /\ LoaderEffect(isTranslating')
    /\ UNCHANGED <<checkoutVars, chatVars, cartVars, detailVars>>

\* Variant: a failed batch is tried again after the delay.
Resolve_RetriesFailure(req, outcome, payload) ==
    /\ req \in BagToSet(inflight)
    /\ inflight' = inflight (-) SetToBag({req})
    /\ cache' = MergeResults(cache, req.texts,
                             translateBatch(req.texts, outcome, payload), req.lang)
    /\ isTranslating' = (outcome # "parsed")
    /\ timer' = IF outcome = "parsed"
                THEN NoTimer
                ELSE [armed |-> TRUE, lang |-> language, cache |-> cache']
    /\ UNCHANGED <<language, missingTranslations, requested>>
    /\ LoaderEffect(isTranslating')
    /\ UNCHANGED <<checkoutVars, chatVars, cartVars, detailVars>>

\* Variant: the results are stored under the language of the current render.
Resolve_CurrentLanguage(req, outcome, payload) ==
    /\ req \in BagToSet(inflight)
    /\ inflight' = inflight (-) SetToBag({req})
    /\ cache' = MergeResults(cache, req.texts,
                             translateBatch(req.texts, outcome, payload), language)
    /\ isTranslating' = FALSE
    /\ timer' = EffectTimer(language, FALSE, cache', TRUE)
    /\ UNCHANGED <<language, missingTranslations, requested>>
    /\ LoaderEffect(isTranslating')
    /\ UNCHANGED <<checkoutVars, chatVars, cartVars, detailVars>>

Resolve(req, outcome, payload) ==
    /\ req \in BagToSet(inflight)
    /\ inflight' = inflight (-) SetToBag({req})
    /\ cache' = MergeResults(cache, req.texts,
                             translateBatch(req.texts, outcome, payload), req.lang)
    /\ isTranslating' = FALSE
    /\ timer' = EffectTimer(language, FALSE, cache', TRUE)
    /\ UNCHANGED <<language, missingTranslations, requested>>
    /\ LoaderEffect(isTranslating')
    /\ UNCHANGED <<checkoutVars, chatVars, cartVars, detailVars>>

ResolveOk ==
    \E req \in BagToSet(inflight) : \E payload \in Payloads(Len(req.texts)) :
        Resolve(req, "parsed", payload)

ResolveFail ==
    \E req \in BagToSet(inflight) : \E outcome \in FailureOutcomes :
        Resolve(req, outcome, << >>)

(***************************************************************************)
(* Checkout: postal-code lookup and shipping estimate.                     *)
(***************************************************************************)
MaxPendingTimers == 2
MaxLookups == 2
MaxEstimates == 2

\* val.length >= 3
MinLookupLength == 3

\* setShippingCost(25)
FallbackCost == 25

Zip98    == <<"9","8">>
Zip981   == <<"9","8","1">>
Zip98121 == <<"9","8","1","2","1">>

\* The values the postal-code input can be edited to.
ZipInputs == {<< >>, Zip98, Zip981, Zip98121}

LocSeattle == [zip |-> Zip98121, city |-> "Seattle", country |-> "USA", region |-> "WA"]
LocMessina == [zip |-> Zip98121, city |-> "Messina", country |-> "Italy", region |-> "Sicily"]

\* The arrays JSON.parse can return in lookupZipLocation.
LookupPayloads == {<< >>, <<LocSeattle>>, <<LocSeattle, LocMessina>>}

\* The objects JSON.parse can return in calculateShippingEstimate; the
\* exchange rate is in hundredths (92 is 0.92).
EstimateSeattle == [cost |-> 16, city |-> "Seattle, WA", distance |-> "840 miles",
                    currency |-> "USD", exchangeRate |-> 100]
EstimateMessina == [cost |-> 74, city |-> "Messina, Italy", distance |-> "10500 km",
                    currency |-> "EUR", exchangeRate |-> 92]
EstimatePayloads == {EstimateSeattle, EstimateMessina}

\* null
Null == [isNull |-> TRUE]

\* No input value: the suggestion list was set by the component itself.
NoQuery == <<"none">>

\* lookupZipLocation: what the promise resolves with.
lookupZipLocation(outcome, payload) ==
    IF outcome = "parsed" THEN payload ELSE << >>

\* calculateShippingEstimate: what the promise resolves with.
calculateShippingEstimate(outcome, payload) ==
    IF outcome = "parsed" THEN payload ELSE Null

\* shippingDetails?.currency || 'USD'
activeCurrency ==
    IF shippingDetails # Null /\ shippingDetails.currency # ""
    THEN shippingDetails.currency ELSE "USD"

\* shippingDetails?.exchangeRate || 1, in hundredths
exchangeRate ==
    IF shippingDetails # Null /\ shippingDetails.exchangeRate # 0
    THEN shippingDetails.exchangeRate ELSE 100

\* setTimeout: an id no pending timeout has.
FreshId(pending) ==
    CHOOSE id \in 1..(Cardinality(pending) + 1) :
        /\ \A t \in pending : t.id # id
        /\ \A other \in 1..(id - 1) : \E t \in pending : t.id = other

\* clearTimeout(debounceRef.current)
ClearTimeout(pending, id) == {t \in pending : t.id # id}

\* Variant: the pending timeout is not cleared.
handleZipChange_NoClear(val) ==
    /\ val # zipCode
    /\ zipCode' = val
    /\ isShippingCalculated' = FALSE
    /\ shippingDetails' = Null
    /\ selectedCountry' = ""
    /\ IF Len(val) >= MinLookupLength
       THEN /\ Cardinality(timeouts) < MaxPendingTimers
            /\ isLookingUp' = TRUE
            /\ debounceRef' = FreshId(timeouts)
            /\ timeouts' = timeouts \cup {[id |-> FreshId(timeouts), val |-> val]}
            /\ UNCHANGED <<suggestions, showSuggestions, suggestionsFor>>
       ELSE /\ suggestions' = << >>
            /\ showSuggestions' = FALSE
            /\ suggestionsFor' = NoQuery
            /\ UNCHANGED <<isLookingUp, debounceRef, timeouts>>
    /\ UNCHANGED <<shippingCost, isCalculating, lookups, estimates>>
    /\ UNCHANGED <<langVars, chatVars, appVars>>

\* Variant: the lookup starts at two characters.
handleZipChange_TwoChars(val) ==
    /\ val # zipCode
    /\ zipCode' = val
    /\ isShippingCalculated' = FALSE
    /\ shippingDetails' = Null
    /\ selectedCountry' = ""
    /\ LET cleared == ClearTimeout(timeouts, debounceRef)
       IN IF Len(val) >= 2
          THEN /\ Cardinality(cleared) < MaxPendingTimers
               /\ isLookingUp' = TRUE
               /\ debounceRef' = FreshId(cleared)
               /\ timeouts' = cleared \cup {[id |-> FreshId(cleared), val |-> val]}
               /\ UNCHANGED <<suggestions, showSuggestions, suggestionsFor>>
          ELSE /\ suggestions' = << >>
               /\ showSuggestions' = FALSE
               /\ suggestionsFor' = NoQuery
               /\ timeouts' = cleared
               /\ UNCHANGED <<isLookingUp, debounceRef>>
    /\ UNCHANGED <<shippingCost, isCalculating, lookups, estimates>>
    /\ UNCHANGED <<langVars, chatVars, appVars>>

\* handleZipChange: the input is edited to val.
handleZipChange(val) ==
    /\ val # zipCode
    /\ zipCode' = val
    /\ isShippingCalculated' = FALSE
    /\ shippingDetails' = Null
    /\ selectedCountry' = ""
    /\ LET cleared == ClearTimeout(timeouts, debounceRef)
       IN IF Len(val) >= MinLookupLength
          THEN /\ Cardinality(cleared) < MaxPendingTimers
               /\ isLookingUp' = TRUE
               /\ debounceRef' = FreshId(cleared)
               /\ timeouts' = cleared \cup {[id |-> FreshId(cleared), val |-> val]}
               /\ UNCHANGED <<suggestions, showSuggestions, suggestionsFor>>
          ELSE /\ suggestions' = << >>
               /\ showSuggestions' = FALSE
               /\ suggestionsFor' = NoQuery
               /\ timeouts' = cleared
               /\ UNCHANGED <<isLookingUp, debounceRef>>
    /\ UNCHANGED <<shippingCost, isCalculating, lookups, estimates>>
    /\ UNCHANGED <<langVars, chatVars, appVars>>

\* The timeout set by handleZipChange runs up to its await.
LookupTimerFire(t) ==
    /\ t \in timeouts
    /\ BagCardinality(lookups) < MaxLookups
    /\ timeouts' = timeouts \ {t}
    /\ lookups' = lookups (+) SetToBag({t.val})
    /\ UNCHANGED <<zipCode, suggestions, showSuggestions, selectedCountry, shippingCost,
                   shippingDetails, isShippingCalculated, isCalculating, isLookingUp,
                   debounceRef, estimates, suggestionsFor>>
    /\ UNCHANGED <<langVars, chatVars, appVars>>

\* Variant: a response for a value that is no longer the input is dropped.
LookupResolve_DropsStale(val, outcome, payload) ==
    /\ val \in BagToSet(lookups)
    /\ lookups' = lookups (-) SetToBag({val})
    /\ IF val = zipCode
       THEN /\ suggestions' = lookupZipLocation(outcome, payload)
            /\ showSuggestions' = TRUE
            /\ isLookingUp' = FALSE
            /\ suggestionsFor' = val
       ELSE UNCHANGED <<suggestions, showSuggestions, isLookingUp, suggestionsFor>>
    /\ UNCHANGED <<zipCode, selectedCountry, shippingCost, shippingDetails,
                   isShippingCalculated, isCalculating, debounceRef, timeouts, estimates>>
    /\ UNCHANGED <<langVars, chatVars, appVars>>

\* The timeout callback after its await.
LookupResolve(val, outcome, payload) ==
    /\ val \in BagToSet(lookups)
    /\ lookups' = lookups (-) SetToBag({val})
    /\ suggestions' = lookupZipLocation(outcome, payload)
    /\ showSuggestions' = TRUE
    /\ isLookingUp' = FALSE
    /\ suggestionsFor' = val
    /\ UNCHANGED <<zipCode, selectedCountry, shippingCost, shippingDetails,
                   isShippingCalculated, isCalculating, debounceRef, timeouts, estimates>>
    /\ UNCHANGED <<langVars, chatVars, appVars>>

LookupTimeout == \E t \in timeouts : LookupTimerFire(t)

LookupOk ==
    \E val \in BagToSet(lookups) : \E payload \in LookupPayloads :
        LookupResolve(val, "parsed", payload)

LookupFail ==
    \E val \in BagToSet(lookups) : \E outcome \in FailureOutcomes :
        LookupResolve(val, outcome, << >>)

\* Variant: the estimate is requested with the zipCode and selectedCountry
\* of the current render instead of the candidate's.
selectLocation_StaleState(loc) ==
    /\ showSuggestions
    /\ InSeq(suggestions, loc)
    /\ BagCardinality(estimates) < MaxEstimates
    /\ zipCode' = loc.zip
    /\ selectedCountry' = loc.country
    /\ suggestions' = << >>
    /\ showSuggestions' = FALSE
    /\ suggestionsFor' = NoQuery
    /\ isCalculating' = TRUE
    /\ shippingDetails' = Null
    /\ estimates' = estimates (+)
           SetToBag({[zip |-> zipCode, country |-> selectedCountry, city |-> loc.city]})
    /\ UNCHANGED <<shippingCost, isShippingCalculated, isLookingUp, debounceRef,
                   timeouts, lookups>>
    /\ UNCHANGED <<langVars, chatVars, appVars>>

\* selectLocation, with handleCalculateShipping up to its await: a row of
\* the dropdown is clicked.
selectLocation(loc) ==
    /\ showSuggestions
    /\ InSeq(suggestions, loc)
    /\ BagCardinality(estimates) < MaxEstimates
    /\ zipCode' = loc.zip
    /\ selectedCountry' = loc.country
    /\ suggestions' = << >>
    /\ showSuggestions' = FALSE
    /\ suggestionsFor' = NoQuery
    /\ isCalculating' = TRUE
    /\ shippingDetails' = Null
    /\ estimates' = estimates (+)
           SetToBag({[zip |-> loc.zip, country |-> loc.country, city |-> loc.city]})
    /\ UNCHANGED <<shippingCost, isShippingCalculated, isLookingUp, debounceRef,
                   timeouts, lookups>>
    /\ UNCHANGED <<langVars, chatVars, appVars>>

\* Variant: the failure branch does not mark the estimate as calculated.
EstimateResolve_FailureStaysPending(req, outcome, payload) ==
    /\ req \in BagToSet(estimates)
    /\ estimates' = estimates (-) SetToBag({req})
    /\ LET result == calculateShippingEstimate(outcome, payload)
       IN IF result # Null
          THEN /\ shippingCost' = result.cost
               /\ shippingDetails' = [city |-> result.city,
                                      distance |-> result.distance,
                                      currency |-> result.currency,
                                      exchangeRate |-> result.exchangeRate]
               /\ isShippingCalculated' = TRUE
          ELSE /\ shippingCost' = FallbackCost
               /\ UNCHANGED <<shippingDetails, isShippingCalculated>>
    /\ isCalculating' = FALSE
    /\ UNCHANGED <<zipCode, suggestions, showSuggestions, selectedCountry, isLookingUp,
                   debounceRef, timeouts, lookups, suggestionsFor>>
    /\ UNCHANGED <<langVars, chatVars, appVars>>

\* handleCalculateShipping after its await.
EstimateResolve(req, outcome, payload) ==
    /\ req \in BagToSet(estimates)
    /\ estimates' = estimates (-) SetToBag({req})
    /\ LET result == calculateShippingEstimate(outcome, payload)
       IN IF result # Null
          THEN /\ shippingCost' = result.cost
               /\ shippingDetails' = [city |-> result.city,
                                      distance |-> result.distance,
                                      currency |-> result.currency,
                                      exchangeRate |-> result.exchangeRate]
               /\ isShippingCalculated' = TRUE
          ELSE /\ shippingCost' = FallbackCost
               /\ isShippingCalculated' = TRUE
               /\ UNCHANGED shippingDetails
    /\ isCalculating' = FALSE
    /\ UNCHANGED <<zipCode, suggestions, showSuggestions, selectedCountry, isLookingUp,
                   debounceRef, timeouts, lookups, suggestionsFor>>
    /\ UNCHANGED <<langVars, chatVars, appVars>>

EstimateOk ==
    \E req \in BagToSet(estimates) : \E payload \in EstimatePayloads :
        EstimateResolve(req, "parsed", payload)

EstimateFail ==
    \E req \in BagToSet(estimates) : \E outcome \in FailureOutcomes :
        EstimateResolve(req, outcome, Null)

(***************************************************************************)
(* Concierge: sendMessageToGemini and generateImageWithNanoBanana.         *)
(***************************************************************************)
MaxTurns == 2

KeyValue == <<"key">>
InputImage == <<"photo">>
ImageA == <<"bytes-a">>
ImageB == <<"bytes-b">>
ReplyText == <<"The Aura Harmony is our quietest piece.">>
ToolText == <<"Here is your image.">>
MissingKeyText == <<"I'm sorry, I cannot connect to the server right now. (Missing API Key)">>
ApologyText == <<"I apologize, but I seem to be having trouble reaching our archives at the moment.">>
SuccessResult == "Image generated successfully."
FailureResult == "Failed to generate image."

\* Nothing awaited yet, nothing returned yet.
NoResponse == [pending |-> TRUE]
NotReturned == [pending |-> TRUE]

\* Function calls a reply can carry.
NoCall == [name |-> "none"]
NoArgs == [missing |-> TRUE]
EditCall == [name |-> "edit_image", args |-> [prompt |-> "in a sunlit room"]]
EditCallNoArgs == [name |-> "edit_image", args |-> NoArgs]
OtherCall == [name |-> "search", args |-> [prompt |-> "lamps"]]

CallLists == {<< >>, <<EditCall>>, <<EditCallNoArgs>>, <<OtherCall>>, <<OtherCall, EditCall>>}

\* The replies chat.sendMessage can resolve with.
ChatReplies == {[text |-> text, functionCalls |-> calls] :
                    text \in {ReplyText, Undefined}, calls \in CallLists}

ToolReplies == {[text |-> text, functionCalls |-> << >>] : text \in {ToolText, Undefined}}

\* result.functionCalls?.[0]
FirstCall(response) ==
    IF Len(response.functionCalls) = 0 THEN NoCall ELSE response.functionCalls[1]

\* The parts of an image model response.
NoInline == [missing |-> TRUE]
TextPart == [inlineData |-> NoInline]
ImagePart(data) == [inlineData |-> [data |-> data]]
PartLists ==
    LET parts == {TextPart, ImagePart(ImageA), ImagePart(ImageB), ImagePart(TxtEmpty)}
    IN UNION {[1..k -> parts] : k \in 0..2}

ImageOutcomes == {"throws", "responded"}

\* The messages of a call.
UserMessage(text, image) ==
    [kind |-> "message", parts |-> IF Truthy(image) THEN <<text, image>> ELSE <<text>>]
FunctionResponse(res) ==
    [kind |-> "functionResponse", name |-> "edit_image", result |-> res]

RECURSIVE FirstImage(_)
FirstImage(parts) ==
    IF Len(parts) = 0 THEN Undefined
    ELSE IF Head(parts).inlineData # NoInline /\ Truthy(Head(parts).inlineData.data)
         THEN Head(parts).inlineData.data
         ELSE FirstImage(Tail(parts))

\* generateImageWithNanoBanana: what the promise resolves with.
generateImageWithNanoBanana(outcome, parts) ==
    IF outcome = "responded" THEN FirstImage(parts) ELSE Undefined

\* sendMessageToGemini up to its first await.
sendMessageToGemini(key, imageArg) ==
    /\ chatPc \in {"idle", "done"}
    /\ turns < MaxTurns
    /\ turns' = turns + 1
    /\ apiKey' = key
    /\ imageBase64' = imageArg
    /\ chatResult' = NoResponse
    /\ generatedImage' = Undefined
    /\ toolResponse' = NoResponse
    /\ caught' = FALSE
    /\ IF ~Truthy(key)
       THEN /\ returned' = [text |-> MissingKeyText, image |-> Undefined]
            /\ sent' = << >>
            /\ chatPc' = "done"
       ELSE /\ returned' = NotReturned
            /\ sent' = <<UserMessage("newMessage", imageArg)>>
            /\ chatPc' = "awaitReply"
    /\ UNCHANGED <<langVars, checkoutVars, appVars>>

\* The catch block.
CatchError ==
    /\ caught' = TRUE
    /\ returned' = [text |-> ApologyText, image |-> Undefined]
    /\ chatPc' = "done"

\* The first chat.sendMessage resolves.
ChatReply(response) ==
    /\ chatPc = "awaitReply"
    /\ chatResult' = response
    /\ LET call == FirstCall(response)
       IN IF call.name = "edit_image"
          THEN IF call.args = NoArgs
               THEN CatchError
               ELSE /\ chatPc' = "awaitImage"
                    /\ UNCHANGED <<caught, returned>>
          ELSE /\ returned' = [text |-> response.text, image |-> Undefined]
               /\ chatPc' = "done"
               /\ UNCHANGED caught
    /\ UNCHANGED <<turns, apiKey, imageBase64, generatedImage, toolResponse, sent>>
    /\ UNCHANGED <<langVars, checkoutVars, appVars>>

ChatReplied == \E response \in ChatReplies : ChatReply(response)

\* The first chat.sendMessage rejects.
ChatThrows ==
    /\ chatPc = "awaitReply"
    /\ CatchError
    /\ UNCHANGED <<turns, apiKey, imageBase64, chatResult, generatedImage, toolResponse, sent>>
    /\ UNCHANGED <<langVars, checkoutVars, appVars>>

\* Variant: the function response always reports success.
ImageGenerated_AlwaysSuccess(outcome, parts) ==
    /\ chatPc = "awaitImage"
    /\ generatedImage' = generateImageWithNanoBanana(outcome, parts)
    /\ sent' = Append(sent, FunctionResponse(SuccessResult))
    /\ chatPc' = "awaitToolReply"
    /\ UNCHANGED <<turns, apiKey, imageBase64, chatResult, toolResponse, caught, returned>>
    /\ UNCHANGED <<langVars, checkoutVars, appVars>>

\* generateImageWithNanoBanana resolves and the function response is sent.
ImageGenerated(outcome, parts) ==
    /\ chatPc = "awaitImage"
    /\ generatedImage' = generateImageWithNanoBanana(outcome, parts)
    /\ sent' = Append(sent, FunctionResponse(IF Truthy(generatedImage')
                                             THEN SuccessResult ELSE FailureResult))
    /\ chatPc' = "awaitToolReply"
    /\ UNCHANGED <<turns, apiKey, imageBase64, chatResult, toolResponse, caught, returned>>
    /\ UNCHANGED <<langVars, checkoutVars, appVars>>

ImageDone ==
    \E outcome \in ImageOutcomes : \E parts \in PartLists : ImageGenerated(outcome, parts)

\* The second chat.sendMessage resolves.
ToolReply(response) ==
    /\ chatPc = "awaitToolReply"
    /\ toolResponse' = response
    /\ returned' = [text |-> response.text,
                    image |-> IF Truthy(generatedImage) THEN generatedImage ELSE Undefined]
    /\ chatPc' = "done"
    /\ UNCHANGED <<turns, apiKey, imageBase64, chatResult, generatedImage, caught, sent>>
    /\ UNCHANGED <<langVars, checkoutVars, appVars>>

ToolReplied == \E response \in ToolReplies : ToolReply(response)

\* The second chat.sendMessage rejects.
ToolThrows ==
    /\ chatPc = "awaitToolReply"
    /\ CatchError
    /\ UNCHANGED <<turns, apiKey, imageBase64, chatResult, generatedImage, toolResponse, sent>>
    /\ UNCHANGED <<langVars, checkoutVars, appVars>>

(***************************************************************************)
(* ProductDetail: the translate button and the reset effect.               *)
(***************************************************************************)
MaxDetailRequests == 2

\* The object translateProductDetails parses for the texts of product p.
TranslationOf(p) ==
    [translatedDescription |-> [italian |-> "description", of |-> p],
     translatedFeatures |-> [italian |-> "features", of |-> p]]

\* translateProductDetails: what the promise resolves with.
translateProductDetails(outcome, payload) ==
    IF outcome = "parsed" THEN payload ELSE Null

\* The requests in flight, each marked as issued before the last reset.
MarkStale(requests) ==
    LET marked(req) == [req EXCEPT !.stale = TRUE]
        targets == {marked(req) : req \in BagToSet(requests)}
    IN [r \in targets |->
            CopiesIn([r EXCEPT !.stale = FALSE], requests) + CopiesIn(r, requests)]

\* The effect with dependency [product], and the state of a fresh mount.
DetailReset ==
    /\ translatedDesc' = Null
    /\ translatedFeatures' = Null
    /\ showTranslation' = FALSE
    /\ detailTranslating' = FALSE
    /\ detailSucceeded' = 0

\* handleTranslate up to its await; the button is disabled while translating.
handleTranslate ==
    /\ view.type = "product"
    /\ ~detailTranslating
    /\ IF showTranslation
       THEN /\ showTranslation' = FALSE
            /\ UNCHANGED <<detailTranslating, detailRequests>>
       ELSE IF translatedDesc # Null /\ translatedFeatures # Null
       THEN /\ showTranslation' = TRUE
            /\ UNCHANGED <<detailTranslating, detailRequests>>
       ELSE /\ BagCardinality(detailRequests) < MaxDetailRequests
            /\ detailTranslating' = TRUE
            /\ detailRequests' = detailRequests (+)
                   SetToBag({[product |-> view.product, stale |-> FALSE]})
            /\ UNCHANGED showTranslation
    /\ UNCHANGED <<translatedDesc, translatedFeatures, detailSucceeded>>
    /\ UNCHANGED <<langVars, checkoutVars, chatVars, cartVars, loaderVars>>

\* handleTranslate after its await.
DetailResolve(req, outcome) ==
    /\ req \in BagToSet(detailRequests)
    /\ detailRequests' = detailRequests (-) SetToBag({req})
    /\ LET result == translateProductDetails(outcome, TranslationOf(req.product))
       IN IF result # Null
          THEN /\ translatedDesc' = result.translatedDescription
               /\ translatedFeatures' = result.translatedFeatures
               /\ showTranslation' = TRUE
               /\ detailSucceeded' = IF req.stale THEN detailSucceeded
                                                  ELSE detailSucceeded + 1
          ELSE UNCHANGED <<translatedDesc, translatedFeatures, showTranslation,
                           detailSucceeded>>
    /\ detailTranslating' = FALSE
    /\ UNCHANGED <<langVars, checkoutVars, chatVars, cartVars, loaderVars>>

DetailOk == \E req \in BagToSet(detailRequests) : DetailResolve(req, "parsed")

DetailFail ==
    \E req \in BagToSet(detailRequests) : \E outcome \in FailureOutcomes :
        DetailResolve(req, outcome)

(***************************************************************************)
(* App: view switching and the cart.                                       *)
(***************************************************************************)
MaxAdds == 3

Products == {"p1", "p2", "p3"}

HomeView == [type |-> "home"]
ProductView(p) == [type |-> "product", product |-> p]
JournalView == [type |-> "journal"]
CheckoutView == [type |-> "checkout"]

\* cartItems.length, the cartCount passed to the Navbar
cartCount == Len(cartItems)

\* Array.prototype.splice(index, 1) on a copy, index counted from 0.
Splice(items, index) ==
    LET len == Len(items)
        start == IF index < 0
                 THEN (IF len + index < 0 THEN 0 ELSE len + index)
                 ELSE (IF index > len THEN len ELSE index)
    IN [j \in 1..(IF start < len THEN len - 1 ELSE len) |->
            IF j <= start THEN items[j] ELSE items[j + 1]]

\* addToCart, reached from the product grid and the product detail.
addToCart(product) ==
    /\ view.type \in {"home", "product"}
    /\ adds < MaxAdds
    /\ cartItems' = Append(cartItems, product)
    /\ isCartOpen' = TRUE
    /\ adds' = adds + 1
    /\ UNCHANGED <<view, removes>>
    /\ UNCHANGED <<langVars, checkoutVars, chatVars, loaderVars, detailVars>>

\* The indexes the cart drawer offers for removal: one per item, while open.
RemovableIndexes == IF isCartOpen THEN 0..(Len(cartItems) - 1) ELSE {}

\* Variant: the last item is removed whatever the index.
removeFromCart_Last(index) ==
    /\ cartItems' = SubSeq(cartItems, 1, Len(cartItems) - 1)
    /\ removes' = removes + 1
    /\ UNCHANGED <<view, isCartOpen, adds>>
    /\ UNCHANGED <<langVars, checkoutVars, chatVars, loaderVars, detailVars>>

removeFromCart(index) ==
    /\ cartItems' = Splice(cartItems, index)
    /\ removes' = removes + 1
    /\ UNCHANGED <<view, isCartOpen, adds>>
    /\ UNCHANGED <<langVars, checkoutVars, chatVars, loaderVars, detailVars>>

RemoveItem == \E index \in RemovableIndexes : removeFromCart(index)

\* handleProductClick, reached from the product grid and from the related
\* cards (the other products); ProductDetail mounts, or its effect on
\* [product] runs while the requests in flight go on.
handleProductClick(p) ==
    /\ \/ view.type = "home"
       \/ view.type = "product" /\ p # view.product
    /\ view' = ProductView(p)
    /\ UNCHANGED <<cartItems, isCartOpen, adds, removes>>
    /\ DetailReset
    /\ detailRequests' = MarkStale(detailRequests)
    /\ UNCHANGED <<langVars, checkoutVars, chatVars, loaderVars>>

\* The Journal's onArticleClick.
onArticleClick ==
    /\ view.type = "home"
    /\ view' = JournalView
    /\ UNCHANGED <<cartItems, isCartOpen, adds, removes>>
    /\ UNCHANGED <<langVars, checkoutVars, chatVars, loaderVars, detailVars>>

\* onBack of ProductDetail, JournalDetail and Checkout; handleNavClick away
\* from home (Navbar and Footer are not rendered in checkout).  Leaving the
\* product view unmounts ProductDetail: its state and the continuations
\* of its requests are gone.
onBack ==
    /\ view.type # "home"
    /\ view' = HomeView
    /\ UNCHANGED <<cartItems, isCartOpen, adds, removes>>
    /\ IF view.type = "product"
       THEN DetailReset /\ detailRequests' = EmptyBag
       ELSE UNCHANGED detailVars
    /\ UNCHANGED <<langVars, checkoutVars, chatVars, loaderVars>>

\* The Navbar's onOpenCart.
onOpenCart ==
    /\ view.type # "checkout"
    /\ ~isCartOpen
    /\ isCartOpen' = TRUE
    /\ UNCHANGED <<view, cartItems, adds, removes>>
    /\ UNCHANGED <<langVars, checkoutVars, chatVars, loaderVars, detailVars>>

\* The drawer's onClose.
onClose ==
    /\ isCartOpen
    /\ isCartOpen' = FALSE
    /\ UNCHANGED <<view, cartItems, adds, removes>>
    /\ UNCHANGED <<langVars, checkoutVars, chatVars, loaderVars, detailVars>>

\* Variant: the drawer stays open.
onCheckout_DrawerStaysOpen ==
    /\ isCartOpen
    /\ view' = CheckoutView
    /\ UNCHANGED <<isCartOpen, cartItems, adds, removes>>
    /\ UNCHANGED <<langVars, checkoutVars, chatVars, loaderVars, detailVars>>

\* The drawer's onCheckout.
onCheckout ==
    /\ isCartOpen
    /\ isCartOpen' = FALSE
    /\ view' = CheckoutView
    /\ UNCHANGED <<cartItems, adds, removes>>
    /\ UNCHANGED <<langVars, checkoutVars, chatVars, loaderVars, detailVars>>

Init ==
    /\ language = English
    /\ cache = << >>
    /\ isTranslating = FALSE
    /\ missingTranslations = << >>
    /\ timer = NoTimer
    /\ inflight = EmptyBag
    /\ requested = {}
    /\ zipCode = << >>
    /\ suggestions = << >>
    /\ showSuggestions = FALSE
    /\ selectedCountry = ""
    /\ shippingCost = 0
    /\ shippingDetails = Null
    /\ isShippingCalculated = FALSE
    /\ isCalculating = FALSE
    /\ isLookingUp = FALSE
    /\ debounceRef = 0
    /\ timeouts = {}
    /\ lookups = EmptyBag
    /\ estimates = EmptyBag
    /\ suggestionsFor = NoQuery
    /\ chatPc = "idle"
    /\ turns = 0
    /\ apiKey = Undefined
    /\ imageBase64 = Undefined
    /\ chatResult = NoResponse
    /\ generatedImage = Undefined
    /\ toolResponse = NoResponse
    /\ caught = FALSE
    /\ sent = << >>
    /\ returned = NotReturned
    /\ view = HomeView
    /\ cartItems = << >>
    /\ isCartOpen = FALSE
    /\ adds = 0
    /\ removes = 0
    /\ mounted = FALSE
    /\ visible = FALSE
    /\ loaderTimer = "unmount"
    /\ translatedDesc = Null
    /\ translatedFeatures = Null
    /\ detailTranslating = FALSE
    /\ showTranslation = FALSE
    /\ detailRequests = EmptyBag
    /\ detailSucceeded = 0

Next ==
    \/ \E text \in Texts : Translate(text)
    \/ \E lang \in Languages : SetLanguage(lang)
    \/ TimerFire
    \/ ResolveOk
    \/ ResolveFail

Spec == Init /\ [][Next]_vars

CheckoutNext ==
    \/ \E val \in ZipInputs : handleZipChange(val)
    \/ LookupTimeout
    \/ LookupOk
    \/ LookupFail
    \/ \E loc \in {LocSeattle, LocMessina} : selectLocation(loc)
    \/ EstimateOk
    \/ EstimateFail

SpecCheckout == Init /\ [][CheckoutNext]_vars

ChatNext ==
    \/ \E key \in {Undefined, KeyValue} : \E imageArg \in {Undefined, InputImage} :
           sendMessageToGemini(key, imageArg)
    \/ ChatReplied
    \/ ChatThrows
    \/ ImageDone
    \/ ToolReplied
    \/ ToolThrows

SpecChat == Init /\ [][ChatNext]_vars

CartNext ==
    \/ \E product \in Products : addToCart(product)
    \/ RemoveItem
    \/ \E p \in Products : handleProductClick(p)
    \/ onArticleClick
    \/ onBack
    \/ onOpenCart
    \/ onClose
    \/ onCheckout

SpecCart == Init /\ [][CartNext]_vars

DetailNext ==
    \/ \E p \in Products : handleProductClick(p)
    \/ onBack
    \/ handleTranslate
    \/ DetailOk
    \/ DetailFail

SpecDetail == Init /\ [][DetailNext]_vars

LoaderNext ==
    \/ \E lang \in Languages : SetLanguage(lang)
    \/ \E text \in {TxtShop} : Translate(text)
    \/ TimerFire
    \/ ResolveOk
    \/ ResolveFail
    \/ ShowTimeout
    \/ UnmountTimeout

SpecLoader == Init /\ [][LoaderNext]_vars

\* The event loop runs a due timeout and remote calls eventually resolve.
FairSpecLoader ==
    /\ SpecLoader
    /\ WF_vars(TimerFire)
    /\ WF_vars(ResolveOk \/ ResolveFail)
    /\ WF_vars(ShowTimeout)
    /\ WF_vars(UnmountTimeout)

\* The event loop runs a due timeout, and remote calls eventually resolve;
\* nothing obliges the user to act.
FairSpec ==
    /\ Spec
    /\ WF_vars(TimerFire)
    /\ WF_vars(ResolveOk \/ ResolveFail)

(***************************************************************************)
(* Vocabulary of the properties.                                           *)
(***************************************************************************)
NonEnglish == Languages \ {English}

\* The cache holds an entry keyed (lang, text).
HasEntry(c, lang, text) == getCacheKey(text, lang) \in DOMAIN c

\* Number of entries of the pending set equal to text.
Occurrences(s, text) == Cardinality({i \in 1..Len(s) : s[i] = text})

\* This step issued the batch request req / processed the response of req.
Issued(req)   == CopiesIn(req, inflight') > CopiesIn(req, inflight)
Resolved(req) == CopiesIn(req, inflight') < CopiesIn(req, inflight)

InFlightWith(lang, text) ==
    \E req \in BagToSet(inflight) : req.lang = lang /\ InSeq(req.texts, text)

IsPrefix(p, s) == Len(p) <= Len(s) /\ SubSeq(s, 1, Len(p)) = p

(***************************************************************************)
(* C1: under a non-English language, for every text with a cache entry     *)
(* under that language translate returns the cached value and leaves the   *)
(* pending set as it was, and a batch request issued for a language never  *)
(* contains a text the cache holds for that language (entries are never    *)
(* removed, so this covers every later request).                           *)
(***************************************************************************)
C1_CachedLookup ==
    [][ /\ \A text \in Texts :
              (language # English /\ HasEntry(cache, language, text)) =>
                  /\ TranslateResult(text).ret = cache[getCacheKey(text, language)]
                  /\ TranslateResult(text).missing = missingTranslations
        /\ \A req \in BagToSet(inflight') :
              Issued(req) =>
                  \A i \in 1..Len(req.texts) : ~HasEntry(cache, req.lang, req.texts[i])
        /\ \A key \in DOMAIN cache : key \in DOMAIN cache'
      ]_vars

\* A text was cached for French while another text is pending and the
\* timer of the next French batch is armed.
C1_Witness ==
    /\ language = French
    /\ HasEntry(cache, French, TxtShop)
    /\ TranslateResult(TxtShop).ret = ResBoutique
    /\ timer # NoTimer
    /\ InSeq(missingTranslations, TxtAbout)

(***************************************************************************)
(* C2 as stated: for every text without a cache entry for the current      *)
(* language, translate returns the text and the pending set then holds it  *)
(* exactly once.                                                           *)
(***************************************************************************)
C2_Original ==
    \A text \in Texts :
        ~HasEntry(cache, language, text) =>
            /\ TranslateResult(text).ret = text
            /\ Occurrences(TranslateResult(text).missing, text) = 1

(***************************************************************************)
(* C2 amended: for every non-empty, non-protected text without a cache     *)
(* entry for the current non-English language, translate returns the text  *)
(* and the pending set then holds it exactly once; the pending set never   *)
(* holds a text twice, whatever the number of calls.                       *)
(***************************************************************************)
C2_PendingOnce ==
    /\ \A text \in Texts :
          ( /\ language # English
            /\ text # TxtEmpty
            /\ ~IsProtected(text)
            /\ ~HasEntry(cache, language, text) ) =>
              /\ TranslateResult(text).ret = text
              /\ Occurrences(TranslateResult(text).missing, text) = 1
    /\ \A text \in Texts : Occurrences(missingTranslations, text) <= 1

\* A text is pending and uncached, and a further call leaves the set alone.
C2_Witness ==
    /\ language = French
    /\ ~HasEntry(cache, French, TxtShop)
    /\ InSeq(missingTranslations, TxtShop)
    /\ TranslateResult(TxtShop).missing = missingTranslations
    /\ TranslateResult(TxtShop).ret = TxtShop

(***************************************************************************)
(* C3: while the language is English translate returns every text          *)
(* unchanged and leaves the pending set alone; no batch request is for     *)
(* English and no cache key starts with "English|".                        *)
(***************************************************************************)
C3_EnglishPassThrough ==
    /\ language = English =>
          /\ \A text \in Texts :
                /\ TranslateResult(text).ret = text
                /\ TranslateResult(text).missing = missingTranslations
          /\ ~isTranslating
          /\ timer = NoTimer
    /\ \A req \in BagToSet(inflight) : req.lang # English
    /\ \A key \in DOMAIN cache : ~IsPrefix(English \o <<"|">>, key)

\* Back in English with translations of two languages cached and the
\* pending set of the last language still filled.
C3_Witness ==
    /\ language = English
    /\ HasEntry(cache, French, TxtShop)
    /\ HasEntry(cache, German, TxtShop)
    /\ Len(missingTranslations) > 0

(***************************************************************************)
(* C4 as stated: processing a failed batch request (missing API key,       *)
(* exception, empty response, unparsable response) leaves the cache as it  *)
(* was.                                                                    *)
(***************************************************************************)
C4_FailureKeepsCache ==
    [][ResolveFail => cache' = cache]_vars

(***************************************************************************)
(* C5 as stated: a text pending for the current non-English language and   *)
(* not yet passed to translateBatch since the language was set is          *)
(* eventually passed to it for that language, unless the language changes  *)
(* (or a response still under way caches the text first).                  *)
(***************************************************************************)
C5_PendingEventuallyRequested ==
    \A lang \in NonEnglish : \A text \in Texts :
        (language = lang /\ InSeq(missingTranslations, text) /\ text \notin requested)
            ~> (language # lang \/ text \in requested \/ HasEntry(cache, lang, text))

(***************************************************************************)
(* C6 as stated: once the response of a batch request for texts S is       *)
(* processed, the pending set holds no text of S.                          *)
(***************************************************************************)
C6_Original ==
    [][ \A req \in BagToSet(inflight) :
            Resolved(req) =>
                \A i \in 1..Len(req.texts) : ~InSeq(missingTranslations', req.texts[i])
      ]_vars

(***************************************************************************)
(* C6 amended: processing the response of a batch request leaves the       *)
(* pending set as it was and clears isTranslating and the timer; a text    *)
(* leaves the pending set only when the language is switched to another    *)
(* non-English language.                                                   *)
(***************************************************************************)
C6_NotDrainedByResponse ==
    [][ /\ \A req \in BagToSet(inflight) :
              Resolved(req) =>
                  /\ missingTranslations' = missingTranslations
                  /\ ~isTranslating'
                  /\ timer' = NoTimer
        /\ (\E i \in 1..Len(missingTranslations) :
                ~InSeq(missingTranslations', missingTranslations[i]))
           => (language' # language /\ language' # English)
      ]_vars

\* The response was processed: the text is cached and still in the set.
C6_Witness ==
    /\ language = French
    /\ InSeq(missingTranslations, TxtShop)
    /\ InSeq(missingTranslations, TxtAbout)
    /\ HasEntry(cache, French, TxtShop)
    /\ ~HasEntry(cache, French, TxtAbout)
    /\ TxtAbout \in requested
    /\ inflight = EmptyBag

(***************************************************************************)
(* C7 as stated: a step that changes the language leaves the pending set   *)
(* empty, and setLanguage with the current language changes nothing.       *)
(***************************************************************************)
C7_Original ==
    [][ /\ language' # language => missingTranslations' = << >>
        /\ SetLanguage(language) => UNCHANGED vars
      ]_vars

(***************************************************************************)
(* C7 amended: a switch to a different non-English language empties the    *)
(* pending set and sets isTranslating; a switch to English leaves the      *)
(* pending set as it was and clears isTranslating; both leave the cache    *)
(* alone, and setLanguage with the current language changes nothing.       *)
(***************************************************************************)
C7_ClearedOnNonEnglish ==
    [][ /\ (language' # language /\ language' # English) =>
              missingTranslations' = << >> /\ isTranslating' /\ cache' = cache
        /\ (language' # language /\ language' = English) =>
              /\ missingTranslations' = missingTranslations
              /\ ~isTranslating'
              /\ cache' = cache
        /\ SetLanguage(language) => UNCHANGED vars
      ]_vars

\* Switched to English with texts of the previous language still in the set.
C7_Witness ==
    /\ language = English
    /\ InSeq(missingTranslations, TxtShop)
    /\ ~isTranslating
    /\ \E req \in BagToSet(inflight) : req.lang = German

(***************************************************************************)
(* C8 as stated (the flag): the response of a request for another language *)
(* does not clear isTranslating while the timer of the current non-English *)
(* language is armed and texts needed for it are not yet requested.        *)
(***************************************************************************)
C8_StaleResponseKeepsFlag ==
    [][ \A req \in BagToSet(inflight) :
            ( /\ Resolved(req)
              /\ language # English
              /\ req.lang # language
              /\ timer # NoTimer
              /\ Len(Needed(missingTranslations, cache, language)) > 0 )
            => isTranslating'
      ]_vars

(***************************************************************************)
(* C9: when a batch request for texts t1..tn resolves with n non-empty     *)
(* strings r1..rn, the cache afterwards maps the key of every ti under the *)
(* request's (non-English) language to ri; a request is issued only with   *)
(* texts that have no cache entry for its language, and entries are never  *)
(* removed.                                                                *)
(***************************************************************************)
C9_BatchPopulatesCache ==
    [][ /\ \A req \in BagToSet(inflight) :
           Resolved(req) =>
           \A payload \in [1..Len(req.texts) -> ResultStrings \ {TxtEmpty}] :
              Resolve(req, "parsed", payload)
              => /\ req.lang # English
                 /\ \A i \in 1..Len(req.texts) :
                       Lookup(cache', getCacheKey(req.texts[i], req.lang)) = payload[i]
        /\ \A req \in BagToSet(inflight') :
              Issued(req) =>
                  \A i \in 1..Len(req.texts) :
                      ~Truthy(Lookup(cache, getCacheKey(req.texts[i], req.lang)))
        /\ \A key \in DOMAIN cache : Truthy(Lookup(cache', key))
      ]_vars

\* ["Shop","About"] in French came back as ["Boutique","A propos"].
C9_Witness ==
    /\ Lookup(cache, getCacheKey(TxtShop, French)) = ResBoutique
    /\ Lookup(cache, getCacheKey(TxtAbout, French)) = ResApropos
    /\ missingTranslations = <<TxtShop, TxtAbout>>
    /\ language = French
    /\ inflight = EmptyBag

C11_Original ==
    \A text \in Texts \ {TxtEmpty} :
        (language # English /\ ~HasEntry(cache, language, text)) =>
            /\ TranslateResult(text).ret = text
            /\ ~InSeq(TranslateResult(text).missing, text)
                  <=> text \in {TxtAura, TxtQuiet}

(***************************************************************************)
(* C11 amended: under a non-English language a non-empty text without a    *)
(* cache entry is left out of the pending set by translate if and only if  *)
(* it is exactly "Aura" or contains "quiet living" in any letter case      *)
(* ("Quiet living.", "QUIET LIVING"); every other non-empty text is        *)
(* registered, and one with a truthy cache entry is returned from the      *)
(* cache.                                                                  *)
(***************************************************************************)
C11_ExemptBySubstring ==
    \A text \in Texts \ {TxtEmpty} :
        language # English =>
            /\ ~HasEntry(cache, language, text) =>
                  /\ TranslateResult(text).ret = text
                  /\ ~InSeq(TranslateResult(text).missing, text)
                        <=> (text = TxtAura \/ Includes(ToLowerCase(text), QuietLivingLower))
            /\ text \in {TxtQuietDot, TxtQuietUpper} =>
                  /\ TranslateResult(text).missing = missingTranslations
                  /\ ~InSeq(missingTranslations, text)
            /\ (HasEntry(cache, language, text) /\ text \in {TxtShop, TxtAbout}) =>
                  TranslateResult(text).ret = cache[getCacheKey(text, language)]

\* Under French one text is registered, the other cached, and
\* "Quiet living." is not registered.
C11_Witness ==
    /\ language = French
    /\ missingTranslations = <<TxtAbout>>
    /\ HasEntry(cache, French, TxtShop)
    /\ TranslateResult(TxtQuietDot).missing = missingTranslations
    /\ InSeq(TranslateResult(TxtShop).missing, TxtShop) = FALSE

(***************************************************************************)
(* Vocabulary of the checkout properties.                                  *)
(***************************************************************************)
\* This step issued / processed the response of a lookup for val.
LookupIssued(val) == CopiesIn(val, lookups') > CopiesIn(val, lookups)
LookupDone(val)   == CopiesIn(val, lookups') < CopiesIn(val, lookups)

\* This step issued a shipping-estimate request.
EstimateIssued == BagCardinality(estimates') > BagCardinality(estimates)

(***************************************************************************)
(* C12: when a shipping estimate fails (calculateShippingEstimate resolves *)
(* with null), the step that processes it sets shippingCost to 25, sets    *)
(* isShippingCalculated and clears isCalculating.                          *)
(***************************************************************************)
C12_FailureFallbackCost ==
    [][ EstimateFail =>
            /\ shippingCost' = 25
            /\ isShippingCalculated'
            /\ ~isCalculating'
      ]_vars

\* A failed estimate was processed after the postal code was selected.
C12_Witness ==
    /\ shippingCost = 25
    /\ isShippingCalculated
    /\ ~isCalculating
    /\ estimates = EmptyBag
    /\ selectedCountry = "Italy"

(***************************************************************************)
(* C13 as stated: after the step that processes a failed shipping          *)
(* estimate, the fallback cost 25 is shown in the fallback currency: the   *)
(* active currency is USD and the exchange rate 1, whatever other estimate *)
(* requests were started.                                                  *)
(***************************************************************************)
C13_FailureFallbackCurrency ==
    [][ EstimateFail =>
            /\ shippingCost' = 25
            /\ activeCurrency' = "USD"
            /\ exchangeRate' = 100
      ]_vars

(***************************************************************************)
(* C16: a lookup in flight is not cancelled by an edit of the input, and   *)
(* the step that processes its response sets the suggestion list to the    *)
(* response, shows the dropdown and clears isLookingUp, also when the      *)
(* input holds another value, a timeout is pending or another lookup is in *)
(* flight.                                                                 *)
(***************************************************************************)
C16_StaleLookupApplied ==
    [][ /\ \A val \in BagToSet(lookups) :
              LookupDone(val) =>
                  /\ showSuggestions'
                  /\ ~isLookingUp'
                  /\ suggestionsFor' = val
                  /\ suggestions' \in LookupPayloads
        /\ (\E val \in ZipInputs : handleZipChange(val)) => lookups' = lookups
      ]_vars

\* The suggestions shown were looked up for a value that is no longer the
\* input, while the lookup for the newer value is in flight.
C16_Witness ==
    /\ showSuggestions
    /\ Len(suggestions) > 0
    /\ suggestionsFor = Zip981
    /\ zipCode = Zip98121
    /\ CopiesIn(Zip98121, lookups) = 1

(***************************************************************************)
(* C17: at most one lookup timeout is pending; after an edit of the input  *)
(* to val no timeout set before is pending (the only one pending is for    *)
(* val); no other step sets a timeout; so a lookup is issued only by the   *)
(* timeout of the last edit, with the value of that edit.                  *)
(***************************************************************************)
C17_DebounceReplaces ==
    [][ /\ Cardinality(timeouts) <= 1
        /\ Cardinality(timeouts') <= 1
        /\ \A val \in ZipInputs :
              handleZipChange(val) =>
                  \A t \in timeouts' : t.val = val /\ t.id = debounceRef'
        /\ (~ \E val \in ZipInputs : handleZipChange(val)) => timeouts' \subseteq timeouts
        /\ \A val \in ZipInputs :
              LookupIssued(val) =>
                  /\ timeouts = {[id |-> debounceRef, val |-> val]}
                  /\ timeouts' = {}
      ]_vars

\* The timeout of the last edit is pending while the lookup of an earlier
\* edit is in flight.
C17_Witness ==
    /\ timeouts = {[id |-> 1, val |-> Zip98121]}
    /\ zipCode = Zip98121
    /\ CopiesIn(Zip981, lookups) = 1

(***************************************************************************)
(* C18: a lookup is issued, and a timeout set, only for a value of at      *)
(* least 3 characters; an edit to a value shorter than 3 characters leaves *)
(* no timeout pending and the suggestion list empty and hidden.            *)
(***************************************************************************)
C18_LookupNeedsThreeChars ==
    [][ /\ \A val \in ZipInputs : LookupIssued(val) => Len(val) >= 3
        /\ \A t \in timeouts' : Len(t.val) >= 3
        /\ \A val \in ZipInputs :
              (Len(val) < 3 /\ handleZipChange(val)) =>
                  /\ timeouts' = {}
                  /\ suggestions' = << >>
                  /\ ~showSuggestions'
      ]_vars

\* The input was shortened to two characters while a timeout was pending:
\* the timeout is gone and nothing is in flight.
C18_Witness ==
    /\ zipCode = Zip98
    /\ timeouts = {}
    /\ lookups = EmptyBag
    /\ isLookingUp
    /\ debounceRef # 0

(***************************************************************************)
(* C19: selecting a candidate issues exactly one shipping-estimate request *)
(* with the candidate's zip, country and city, sets zipCode and            *)
(* selectedCountry to the candidate's and empties and hides the suggestion *)
(* list; no other step issues a shipping-estimate request.                 *)
(***************************************************************************)
C19_SelectionTriggersEstimate ==
    [][ /\ \A loc \in {LocSeattle, LocMessina} :
              selectLocation(loc) =>
                  /\ estimates' = estimates (+)
                        SetToBag({[zip |-> loc.zip, country |-> loc.country,
                                   city |-> loc.city]})
                  /\ BagCardinality(estimates') = BagCardinality(estimates) + 1
                  /\ zipCode' = loc.zip
                  /\ selectedCountry' = loc.country
                  /\ suggestions' = << >>
                  /\ ~showSuggestions'
        /\ EstimateIssued => \E loc \in {LocSeattle, LocMessina} : selectLocation(loc)
      ]_vars

\* Messina was selected: its estimate is in flight.
C19_Witness ==
    /\ estimates = SetToBag({[zip |-> Zip98121, country |-> "Italy", city |-> "Messina"]})
    /\ zipCode = Zip98121
    /\ selectedCountry = "Italy"
    /\ suggestions = << >>
    /\ isCalculating

EmptyResponse(response) ==
    /\ response # NoResponse
    /\ ~Truthy(response.text)
    /\ Len(response.functionCalls) = 0

\* The positions of the function responses among the messages sent.
FunctionResponsesSent == {i \in 1..Len(sent) : sent[i].kind = "functionResponse"}

(***************************************************************************)
(* C14: every failure of the remote model is converted to the fallback:    *)
(* a finished concierge call during which a request threw or the model     *)
(* replied with nothing has resolved with the static apology, and on       *)
(* every failure the lookup resolves with the empty list, the estimate     *)
(* with null and the batch translation with its input texts.               *)
(***************************************************************************)
C14_FailureFallback ==
    /\ (chatPc = "done" /\ (caught \/ EmptyResponse(chatResult) \/ EmptyResponse(toolResponse)))
           => returned.text = ApologyText
    /\ \A outcome \in FailureOutcomes :
           /\ lookupZipLocation(outcome, <<LocSeattle>>) = << >>
           /\ calculateShippingEstimate(outcome, EstimateSeattle) = Null
           /\ translateBatch(<<TxtShop, TxtAbout>>, outcome, <<ResBoutique>>) = <<TxtShop, TxtAbout>>

C21_ImageIffGenerated ==
    chatPc = "done" =>
        ( Truthy(returned.image)
          <=> ( /\ chatResult # NoResponse
                /\ FirstCall(chatResult).name = "edit_image"
                /\ Truthy(generatedImage) ) )

(***************************************************************************)
(* C24: a batch response is stored under the language it was requested     *)
(* for.  The step that processes the response of a request changes the     *)
(* cache only at keys (request language, text of the request); when the    *)
(* current language differs from the request's, no key of the current      *)
(* language changes.                                                       *)
(***************************************************************************)
C24_StoredUnderRequestLanguage ==
    [][ \A req \in BagToSet(inflight) :
            Resolved(req) =>
                /\ \A key \in DOMAIN cache' :
                       Lookup(cache', key) # Lookup(cache, key) =>
                           \E i \in 1..Len(req.texts) :
                               key = getCacheKey(req.texts[i], req.lang)
                /\ req.lang # language =>
                       \A text \in Texts :
                           Lookup(cache', getCacheKey(text, language))
                               = Lookup(cache, getCacheKey(text, language))
      ]_vars

\* The language is German, the French translation of "Shop" is cached, no
\* German one is, and nothing is armed or in flight.
C24_Witness ==
    /\ language = German
    /\ Lookup(cache, getCacheKey(TxtShop, French)) = ResBoutique
    /\ ~HasEntry(cache, German, TxtShop)
    /\ InSeq(missingTranslations, TxtShop)
    /\ requested = {}
    /\ ~isTranslating
    /\ timer = NoTimer
    /\ inflight = EmptyBag

(***************************************************************************)
(* C26 as stated: from an edit of the postal code until the next           *)
(* selection (selectedCountry is "" exactly then and initially) shipping   *)
(* is not calculated and shippingDetails is null.                          *)
(***************************************************************************)
C26_UncalculatedUntilSelection ==
    selectedCountry = "" => (~isShippingCalculated /\ shippingDetails = Null)

(***************************************************************************)
(* C27 as stated: isLookingUp is true only if a lookup timeout is pending  *)
(* or a lookup request is in flight.                                       *)
(***************************************************************************)
C27_LookingUpMeansPending ==
    isLookingUp => (timeouts # {} \/ lookups # EmptyBag)

(***************************************************************************)
(* C28 as stated: isCalculating is true exactly when an estimate request   *)
(* is in flight.                                                           *)
(***************************************************************************)
C28_CalculatingIffInFlight ==
    isCalculating <=> estimates # EmptyBag

(***************************************************************************)
(* Vocabulary of the cart properties.                                      *)
(***************************************************************************)
\* The sequence without its element at position index, counted from 0.
Without(items, index) ==
    SubSeq(items, 1, index) \o SubSeq(items, index + 2, Len(items))

(***************************************************************************)
(* C22: the cart is an ordered sequence changed only by append and         *)
(* index-based removal.  A step of addToCart(p) leaves the previous        *)
(* sequence with p appended; a step of removeFromCart(i) for an index i of *)
(* the cart leaves the previous sequence without its i-th element, the     *)
(* others in order; no step changes the cart in another way; and the cart  *)
(* count equals the number of adds minus the number of removes.            *)
(***************************************************************************)
C22_CartAppendAndRemove ==
    [][ /\ \A p \in Products :
              addToCart(p) => cartItems' = cartItems \o <<p>>
        /\ \A index \in 0..(Len(cartItems) - 1) :
              removeFromCart(index) =>
                  /\ cartItems' = Without(cartItems, index)
                  /\ Len(cartItems') = Len(cartItems) - 1
        /\ cartItems' # cartItems =>
              \/ \E p \in Products : cartItems' = cartItems \o <<p>>
              \/ \E index \in 0..(Len(cartItems) - 1) :
                    cartItems' = Without(cartItems, index)
        /\ cartCount = adds - removes
        /\ cartCount' = adds' - removes'
      ]_vars

\* Three products were added and the first one was removed.
C22_Witness ==
    /\ cartItems = <<"p2", "p3">>
    /\ adds = 3
    /\ removes = 1
    /\ cartCount = 2

(***************************************************************************)
(* C29: the cart cannot change while the checkout view is shown.  A step   *)
(* that ends in the checkout view ends with the drawer closed, a step      *)
(* taken in the checkout view leaves the item sequence as it was, and in   *)
(* the checkout view no index is offered for removal.                      *)
(***************************************************************************)
C29_CartFrozenInCheckout ==
    [][ /\ view'.type = "checkout" =>
              /\ ~isCartOpen'
              /\ RemovableIndexes' = {}
        /\ view.type = "checkout" =>
              /\ cartItems' = cartItems
              /\ \A p \in Products : ~addToCart(p)
              /\ \A index \in 0..(Len(cartItems) - 1) : ~removeFromCart(index)
      ]_vars

\* Checkout was entered with two items in the cart.
C29_Witness ==
    /\ view.type = "checkout"
    /\ Len(cartItems) = 2
    /\ ~isCartOpen

DetailIssued == BagCardinality(detailRequests') > BagCardinality(detailRequests)

(***************************************************************************)
(* C25 as stated: whenever the product detail shows the translation, the   *)
(* stored description and features are non-null and are the translation    *)
(* of the product displayed.                                               *)
(***************************************************************************)
C25_TranslationOfShownProduct ==
    (view.type = "product" /\ showTranslation) =>
        /\ translatedDesc # Null
        /\ translatedFeatures # Null
        /\ translatedDesc = TranslationOf(view.product).translatedDescription
        /\ translatedFeatures = TranslationOf(view.product).translatedFeatures

(***************************************************************************)
(* C30 as stated: for the product displayed at most one translation        *)
(* request succeeds; no request is issued once a translation is stored;    *)
(* and the step that processes a failed request for the product displayed  *)
(* leaves showTranslation false, the stored translation empty and the      *)
(* translating flag cleared.                                               *)
(***************************************************************************)
C30_OneSuccessfulRequest ==
    [][ /\ detailSucceeded' <= 1
        /\ DetailIssued => (translatedDesc = Null /\ translatedFeatures = Null)
        /\ \A req \in BagToSet(detailRequests) :
              (~req.stale /\ \E outcome \in FailureOutcomes : DetailResolve(req, outcome)) =>
                  /\ ~showTranslation'
                  /\ translatedDesc' = Null
                  /\ translatedFeatures' = Null
                  /\ ~detailTranslating'
      ]_vars

====
